---- MODULE Spec2Model ----
(***************************************************************************)
(* Model of shell_calc.py: discovery of pending job directories            *)
(* (do_calculations), the two-stage executor (_shell_and_bat) and the two  *)
(* schedulers (_do_calculation_t, _do_calculation).                        *)
(*                                                                         *)
(* File names are sequences of one-character strings so that the regular   *)
(* expressions and the slicing of the source are computed, not assumed.    *)
(***************************************************************************)
EXTENDS Integers, Sequences, FiniteSets, TLC

\* ------------------------------------------------------------------ bounds
NumDirs == 2
MaxOpenThreads == 2
MaxRuns == 2

\* ------------------------------------------------------- python primitives
\* None, where the source has a file name or nothing: no file name is empty
NoFile == << >>
\* None, where the source has a non-negative integer or nothing
NoInt == -1
\* None, where the source has a boolean or nothing
NoBool == "None"

Digits == {"0", "1", "2", "3", "4", "5", "6", "7", "8", "9"}

DigitVal(c) ==
  CASE c = "0" -> 0 [] c = "1" -> 1 [] c = "2" -> 2 [] c = "3" -> 3
    [] c = "4" -> 4 [] c = "5" -> 5 [] c = "6" -> 6 [] c = "7" -> 7
    [] c = "8" -> 8 [] c = "9" -> 9

\* the digit of a number below 10
DigitChar(m) == CHOOSE c \in Digits : DigitVal(c) = m

Min2(a, b) == IF a < b THEN a ELSE b
Max2(a, b) == IF a > b THEN a ELSE b

\* s[lo:hi] of python, lo and hi 0-based, negative values counted from the end
PyIndex(s, i) == IF i < 0 THEN Max2(i + Len(s), 0) ELSE Min2(i, Len(s))
PySlice(s, lo, hi) ==
  LET a == PyIndex(s, lo)
      b == PyIndex(s, hi)
  IN  IF b <= a THEN << >> ELSE SubSeq(s, a + 1, b)

\* s.rfind(c): 0-based index of the last occurrence of c, -1 when absent
RFind(s, c) ==
  LET occ == {i \in 1..Len(s) : s[i] = c}
  IN  IF occ = {} THEN -1
      ELSE (CHOOSE i \in occ : \A j \in occ : j <= i) - 1

\* s.split(c)
RECURSIVE Split(_, _)
Split(s, c) ==
  LET occ == {i \in 1..Len(s) : s[i] = c}
  IN  IF occ = {} THEN <<s>>
      ELSE LET i == CHOOSE k \in occ : \A j \in occ : k <= j
           IN  <<SubSeq(s, 1, i - 1)>> \o Split(SubSeq(s, i + 1, Len(s)), c)

Reversed(s) == [i \in 1..Len(s) |-> s[Len(s) + 1 - i]]

HasPrefixAt(s, i, lit) ==
  /\ i + Len(lit) - 1 <= Len(s)
  /\ \A k \in 1..Len(lit) : s[i + k - 1] = lit[k]

\* length of the longest run of digits of s starting at position i (1-based)
RECURSIVE DigitRun(_, _)
DigitRun(s, i) ==
  IF i <= Len(s) /\ s[i] \in Digits THEN 1 + DigitRun(s, i + 1) ELSE 0

\* re.match('A\d+', s): length of the match at the start of s, 0 for no match
MatchMassNum(s) ==
  IF Len(s) >= 2 /\ s[1] = "A" /\ DigitRun(s, 2) > 0
  THEN 1 + DigitRun(s, 2) ELSE 0

\* re.match('A\d+' + suffix, s), suffix a literal
MatchMassNumThen(s, lit) ==
  MatchMassNum(s) > 0 /\ HasPrefixAt(s, MatchMassNum(s) + 1, lit)

\* int(digits)
RECURSIVE ParseInt(_)
ParseInt(s) ==
  IF Len(s) = 0 THEN 0
  ELSE 10 * ParseInt(SubSeq(s, 1, Len(s) - 1)) + DigitVal(s[Len(s)])

\* ------------------------------------------------------------- constants
MAX_OPEN_THREADS == 10
CHR_FILENAME_SPLIT == "_"
EXT_INT == <<".", "i", "n", "t">>
EXT_ANS == <<".", "a", "n", "s">>
EXT_BAT == <<".", "b", "a", "t">>
EXT_LPT == <<".", "l", "p", "t">>
USDB == <<"u", "s", "d", "b">>

RGX_FNAME_INT == "(A\\d+|usdb)\\.int"
RGX_FNAME_ANS == "A\\d+\\.ans"
RGX_FNAME_BAT == "A\\d+\\.bat"

\* re.match(regex, f) is not None, for the regular expressions of the source
re_match(regex, f) ==
  CASE regex = RGX_FNAME_INT ->
         \/ MatchMassNumThen(f, EXT_INT)
         \/ HasPrefixAt(f, 1, USDB \o EXT_INT)
    [] regex = RGX_FNAME_ANS -> MatchMassNumThen(f, EXT_ANS)
    [] regex = RGX_FNAME_BAT -> MatchMassNumThen(f, EXT_BAT)

\* ------------------------------------------------------ file name parsing
filename_elts_list(fname, split_char) ==
  LET ext_index == RFind(fname, ".")
      dir_index == RFind(fname, "/")
      filename_without_ext ==
        IF dir_index # -1 THEN PySlice(fname, dir_index, ext_index)
        ELSE PySlice(fname, 0, ext_index)
  IN  Split(filename_without_ext, split_char)

\* first element matched completely by 'A\d+', NoFile when there is none
elt_from_felts(felts) ==
  LET hits == {i \in 1..Len(felts) :
                 /\ MatchMassNum(felts[i]) > 0
                 /\ MatchMassNum(felts[i]) = Len(felts[i])}
  IN  IF hits = {} THEN NoFile
      ELSE felts[CHOOSE i \in hits : \A j \in hits : i <= j]

mass_number_from_filename(filename) ==
  LET filename_elts == Reversed(filename_elts_list(filename, CHR_FILENAME_SPLIT))
      mass == elt_from_felts(filename_elts)
  IN  IF mass # NoFile THEN ParseInt(PySlice(mass, 1, Len(mass))) ELSE NoInt

\* first file of the list matched by the regular expression, else NoFile
get_file(list_of_fname, regex) ==
  LET hits == {i \in 1..Len(list_of_fname) : re_match(regex, list_of_fname[i])}
  IN  IF hits = {} THEN NoFile
      ELSE list_of_fname[CHOOSE i \in hits : \A j \in hits : i <= j]

\* glob '*.lpt': the name ends in .lpt and is not a hidden file
GlobLpt(f) ==
  /\ Len(f) >= Len(EXT_LPT)
  /\ HasPrefixAt(f, Len(f) - Len(EXT_LPT) + 1, EXT_LPT)
  /\ f[1] # "."

files_with_ext_in_directory(listing) ==
  {i \in 1..Len(listing) : GlobLpt(listing[i])}

LptThreshold == 1

\* variant: one report is enough
calc_has_been_done_one(listing) ==
  Cardinality(files_with_ext_in_directory(listing)) >= LptThreshold

calc_has_been_done(listing) ==
  Cardinality(files_with_ext_in_directory(listing)) > LptThreshold

\* ------------------------------------------------------------ directories
Dirs == 1..NumDirs

F_A1 == <<"A", "1">>
F_A2 == <<"A", "2">>
\* the report files the secondary program may write
LptPool == <<<<"r", "1">> \o EXT_LPT, <<"r", "2">> \o EXT_LPT>>

\* the lists of mass numbers the caller may ask for: range(amin, amax + 1)
Ranges == {1..1, 2..2}

\* the job directories a results tree may hold when a run starts
Listings ==
  << << >>,
    <<F_A1 \o EXT_INT, F_A1 \o EXT_ANS>>,
    <<F_A1 \o EXT_INT>>,
    <<F_A1 \o EXT_INT, F_A1 \o EXT_ANS, F_A1 \o EXT_BAT>>,
    <<F_A1 \o EXT_INT, F_A1 \o EXT_ANS, F_A1 \o EXT_BAT, LptPool[1], LptPool[2]>>,
    <<F_A1 \o EXT_INT, F_A1 \o EXT_ANS, LptPool[1], LptPool[2]>>,
    <<F_A2 \o EXT_INT, F_A2 \o EXT_ANS>>,
    <<USDB \o EXT_INT, F_A1 \o EXT_ANS>>,
    <<F_A1 \o EXT_INT, F_A1 \o EXT_BAT>> >>

\* results trees: the directories are independent of one another, so one
\* directory ranges over the catalogue, the second is either no job directory
\* or a job that has not been run, and each further one is either no job
\* directory or a job for which there is nothing to run
Trees ==
  {t \in [Dirs -> {Listings[i] : i \in 1..Len(Listings)}] :
     /\ \A d \in Dirs \ {1} : t[d] \in {Listings[1], Listings[2], Listings[3]}
     /\ \A d \in Dirs \ {1, 2} : t[d] # Listings[2]
     /\ \A d \in Dirs \ {1} : d = 2 => t[d] # Listings[3]}

\* the trees whose job directories are among the first two
JobTrees == {t \in Trees : \A d \in Dirs \ {1, 2} : t[d] = Listings[1]}

\* listing after a program has written the named file (overwritten if present)
WriteFile(listing, f) ==
  IF \E i \in 1..Len(listing) : listing[i] = f THEN listing
  ELSE Append(listing, f)

RECURSIVE WriteFiles(_, _)
WriteFiles(listing, fs_) ==
  IF Len(fs_) = 0 THEN listing
  ELSE WriteFiles(WriteFile(listing, Head(fs_)), Tail(fs_))

\* the .bat file the primary program leaves for a given .ans file
BatNameFor(fname_ans) ==
  PySlice(fname_ans, 0, RFind(fname_ans, ".")) \o EXT_BAT

ExitCodes == {0, 1}

\* ------------------------------------------------------------------ state
VARIABLES
  force,            \* do_calculations(force=...)
  verbose,          \* do_calculations(verbose=...)
  stream_lens,      \* lengths of what 'shell' and 'source' write to a stream
  threading,        \* do_calculations(threading=...)
  a_range,          \* do_calculations(a_range=...)
  max_open_threads, \* _do_calculation_t(_max_open_threads=...)
  fs,               \* results tree: directory -> listing
  run,              \* number of the current invocation of do_calculations
  pc,               \* position of the thread that called do_calculations
  walked,           \* listings seen by walk() in this run
  pending,          \* roots appended to todo in this run
  todo_list,        \* (root, files) pairs not yet handed out
  seq_i,            \* position of the for loop of _do_calculation
  active_list,      \* threads started and not yet removed
  done_queue,       \* Queue of finished threads
  jobs_completed,
  jobs_total,
  result,           \* value returned by do_calculations
  execs,            \* invocations of _shell_and_bat of this run
  handed,           \* directory -> number of invocations of _shell_and_bat
  shell_calls,      \* directory -> 'shell' processes launched in this run
  bat_calls,        \* directory -> 'source' processes launched in this run
  failed,           \* whether a process of this run has exited with a nonzero status
  io,               \* what the step just taken read from a process and wrote
  argv,             \* arguments the script was run with
  sources,          \* sources directory: its .int files, or NoDir
  results,          \* results directory: the entries (path, kind) below it
  batch             \* frame of do_all_calculations

vars == <<force, verbose, stream_lens, threading, a_range, max_open_threads, fs, run, pc,
          walked, pending, todo_list, seq_i, active_list, done_queue,
          jobs_completed, jobs_total, result, execs, handed, shell_calls,
          bat_calls, failed, io, argv, sources, results, batch>>

inputs == <<force, verbose, stream_lens, threading, a_range,
            max_open_threads>>
sched == <<todo_list, seq_i, active_list, done_queue, jobs_completed,
           jobs_total>>
history == <<walked, pending, failed>>
\* what do_all_calculations works on before it calls do_calculations
outer == <<argv, sources, results, batch>>

NoCalls == [d \in Dirs |-> 0]

\* lengths of what a process may write to one of its streams
StreamLens == {0, 1}

\* no process has just exited
NoIO ==
  [root |-> 0, stage |-> "none", piped |-> FALSE, out |-> NoInt,
   err |-> NoInt, opened |-> {}, status |-> NoInt, rendered |-> << >>]

\* line 782: progress = progress and not verbose, the argument being left at
\* its default
Progress(verbose_) == ~verbose_

\* lines 642-655: _print_progress writes one line unless total is 0
Render(completed, total, end) ==
  IF ~(total > 0) THEN << >>
  ELSE <<[completed |-> completed, total |-> total, end |-> end]>>

\* a step that may render the progress line and reads no process
Rendering(progress, completed, total, end) ==
  IF progress THEN [NoIO EXCEPT !.rendered = Render(completed, total, end)]
  ELSE NoIO

\* what is known of the exit statuses of the processes of a run: they are
\* not followed, none was nonzero so far, one was
Unwatched == "unwatched"
AllZero == "all zero"
SomeNonzero == "some nonzero"

\* lines 543, 604: p.poll() of a process that has exited; a nonzero status is
\* a failed calculation
Failed(failed_, rc) ==
  IF failed_ = Unwatched THEN Unwatched
  ELSE IF rc # 0 THEN SomeNonzero
  ELSE failed_

\* a new run: no process has exited yet
Watch(failed_) == IF failed_ = Unwatched THEN Unwatched ELSE AllZero

\* nothing has been dispatched yet
Fresh ==
  /\ run = 1
  /\ walked = fs
  /\ pending = {}
  /\ todo_list = << >>
  /\ seq_i = 1
  /\ active_list = << >>
  /\ done_queue = << >>
  /\ jobs_completed = 0
  /\ jobs_total = 0
  /\ result = NoBool
  /\ execs = << >>
  /\ handed = NoCalls
  /\ shell_calls = NoCalls
  /\ bat_calls = NoCalls
  /\ io = NoIO

\* there is no sources directory
NoDir == {NoFile}
\* no exception is on its way
NoExc == "None"

\* do_calculations is about to be called over a tree that is taken as it is:
\* how it was prepared is left out
Prepared ==
  /\ pc = "idle"
  /\ argv = << >>
  /\ sources = NoDir
  /\ results = {}
  /\ batch = << >>

\* the state when do_calculations is called with verbose among `verbosities`
\* over a tree among `trees`, with programs that write to their streams as
\* one of `talk` says.  do_calculations does not pass
\* _max_open_threads: the other values are _do_calculation_t called with
\* them, and it has no verbose parameter.
Start(verbosities, talk, trees, watch) ==
  /\ force \in BOOLEAN
  /\ verbose \in verbosities
  /\ stream_lens \in talk
  /\ threading \in BOOLEAN
  /\ a_range \in Ranges
  /\ max_open_threads \in IF threading /\ ~verbose THEN 1..MaxOpenThreads
                          ELSE {MAX_OPEN_THREADS}
  /\ fs \in trees
  /\ Fresh
  /\ failed = watch
  /\ Prepared

\* verbose is left at its default and the programs are silent
Init == Start({FALSE}, {{0}}, Trees, Unwatched)

\* either value of verbose and programs that may write to either stream,
\* over the trees with at most two job directories
ExecInit == Start(BOOLEAN, {StreamLens}, JobTrees, Unwatched)

\* as Init over the trees with at most two job directories, the exit
\* statuses being followed
OutcomeInit == Start({FALSE}, {{0}}, JobTrees, AllZero)

\* ---------------------------------------------------------------- discovery
\* variant: a file name without a mass number passes the filter
InRangeOrUnparsed(a, range) == a = NoInt \/ a \in range

InRange(a, range) == a \in range

\* variant: the .bat file is not looked at
SelectableAnyBat(fname_int, fname_bat, force_) == fname_int # NoFile

Selectable(fname_int, fname_bat, force_) ==
  fname_int # NoFile /\ (force_ \/ fname_bat = NoFile)

Selected(files, force_, range) ==
  LET fname_int == get_file(files, RGX_FNAME_INT)
      fname_bat == get_file(files, RGX_FNAME_BAT)
  IN  /\ Selectable(fname_int, fname_bat, force_)
      /\ InRange(mass_number_from_filename(fname_int), range)

\* todo after walk() has visited every directory of the tree
Walk(tree, force_, range) ==
  LET IsJob(job) == Selected(job.files, force_, range)
  IN  SelectSeq([d \in Dirs |-> [root |-> d, files |-> tree[d]]], IsJob)

UseThreads(threading_, todo) == threading_ /\ Len(todo) > 1

do_calculations ==
  /\ pc = "idle"
  /\ LET todo == Walk(fs, force, a_range)
     IN  /\ todo_list' = todo
         /\ pending' = {todo[i].root : i \in 1..Len(todo)}
         /\ jobs_total' = Len(todo)
         /\ pc' = IF UseThreads(threading, todo) THEN "loop" ELSE "seq"
  /\ walked' = fs
  /\ jobs_completed' = 0
  /\ seq_i' = 1
  /\ active_list' = << >>
  /\ done_queue' = << >>
  /\ execs' = << >>
  /\ handed' = NoCalls
  /\ shell_calls' = NoCalls
  /\ bat_calls' = NoCalls
  /\ result' = NoBool
  /\ failed' = Watch(failed)
  /\ io' = Rendering(Progress(verbose) /\ pc' = "loop", 0, jobs_total', FALSE)
  /\ UNCHANGED <<inputs, outer, fs, run>>

\* the script is run again, without -f, over the tree the previous run left
\* (a forced run starts from a tree as Init already provides)
Rerun ==
  /\ pc = "returned"
  /\ run < MaxRuns
  /\ ~force
  /\ run' = run + 1
  /\ pc' = "idle"
  /\ io' = NoIO
  /\ UNCHANGED <<inputs, outer, fs, sched, history, result, execs, handed,
                 shell_calls, bat_calls>>

\* ----------------------------------------------------------- task executor
FNAME_STDOUT_SHELL == "__stdout_shell__.txt"
FNAME_STDERR_SHELL == "__stderr_shell__.txt"
FNAME_STDOUT_BAT == "__stdout_bat__.txt"
FNAME_STDERR_BAT == "__stderr_bat__.txt"

\* listdir(root) has not been called yet
NoListing == <<NoFile>>

\* variant: cwd is not passed, the process inherits the directory of the
\* script
PopenInheritCwd(args, shell, piped, cwd, ok) ==
  [args |-> args, shell |-> shell, piped |-> piped, cwd |-> 0, ok |-> ok]
\* one call of Popen: its arguments and whether the process was created
\* (ok = FALSE: OSError)
Popen(args, shell, piped, cwd, ok) ==
  [args |-> args, shell |-> shell, piped |-> piped, cwd |-> cwd, ok |-> ok]

ShellArgs(fname_ans) == <<"shell", fname_ans>>
BatArgs(fname_bat) == <<"source", fname_bat>>
\* ' '.join(args)
JoinArgs(args) == <<args[1], " ", args[2]>>

\* the frame of one call of _shell_and_bat
NewExec(job, verbose_) ==
  [root |-> job.root, files |-> job.files, verbose |-> verbose_,
   pc |-> "started", popen |-> << >>, new_files |-> NoListing,
   ret1 |-> NoInt]

\* line 673: _shell_and_bat returns (ret1, ret2) and its frame is gone;
\* neither caller keeps the pair
Return(x, pc_) ==
  [x EXCEPT !.pc = pc_, !.popen = << >>, !.new_files = NoListing,
            !.ret1 = NoInt]

Bump(f, d) == [f EXCEPT ![d] = @ + 1]

\* variant: force is not looked at
ShellWantedNoForce(fname_ans, fname_bat, force_) ==
  fname_ans # NoFile /\ fname_bat = NoFile

ShellWanted(fname_ans, fname_bat, force_) ==
  fname_ans # NoFile /\ (fname_bat = NoFile \/ force_)

\* variant: force does not override the test for reports
BatWantedUnlessDone(fname_bat, force_, done) == fname_bat # NoFile /\ ~done

BatWanted(fname_bat, force_, done) ==
  fname_bat # NoFile /\ (force_ \/ ~done)

\* variant: the command line goes through the shell whether or not the first
\* Popen raised
BatPopensAlwaysShell(args, piped, cwd, direct, via_shell) ==
  <<Popen(args, FALSE, piped, cwd, direct),
    Popen(JoinArgs(args), TRUE, piped, cwd, via_shell)>>

\* lines 584-588, 599-602: Popen of the argument list and, on OSError, Popen
\* of the joined command line with shell=True
BatPopens(args, piped, cwd, direct, via_shell) ==
  IF direct
  THEN <<Popen(args, FALSE, piped, cwd, TRUE)>>
  ELSE <<Popen(args, FALSE, piped, cwd, FALSE),
         Popen(JoinArgs(args), TRUE, piped, cwd, via_shell)>>

\* what communicate() returns for one stream; under verbose the stream is
\* the caller's and nothing is read
Captured(verbose_) == IF verbose_ THEN {NoInt} ELSE stream_lens

\* variant: the file is opened whatever was read
OpenedAlways(root, len, fname) == {<<root, fname>>}

\* lines 532-539, 590-597: path.join(root, fname) is opened for writing when
\* something was read from the stream
Opened(root, len, fname) == IF len > 0 THEN {<<root, fname>>} ELSE {}

\* lines 529-543, 583-604 from the exit of the process on: what was read,
\* the files opened for writing and p.poll()
Communicate(root, stage, verbose_, out, err, fname_stdout, fname_stderr, rc) ==
  [root |-> root, stage |-> stage, piped |-> ~verbose_, out |-> out,
   err |-> err,
   opened |-> IF verbose_ THEN {}
              ELSE Opened(root, out, fname_stdout)
                     \cup Opened(root, err, fname_stderr),
   status |-> rc, rendered |-> << >>]

\* variant: stage 2 is decided on the listing the executor was handed
ListdirStale(tree, x) == x.files

\* line 670: new_files = listdir(root)
Listdir(tree, x) == tree[x.root]

\* whether the second Popen creates a process; there is none when the first
\* one did
Retried(direct) == IF direct THEN {FALSE} ELSE BOOLEAN

\* lines 670-672 for executor e once stage 1 has left the tree as `tree` and
\* returned ret1: listdir(root), then _do_bat_calculation up to the creation
\* of the process
do_bat_calculation(e, tree, ret1) ==
  LET x == execs[e]
      d == x.root
      new_files == Listdir(tree, x)
      fname_bat == get_file(new_files, RGX_FNAME_BAT)
      listed == [x EXCEPT !.new_files = new_files, !.ret1 = ret1]
  IN  IF BatWanted(fname_bat, force, calc_has_been_done(tree[d]))
      THEN \E direct \in BOOLEAN : \E via_shell \in Retried(direct) :
             LET ps == BatPopens(BatArgs(fname_bat), ~x.verbose, d, direct,
                                 via_shell)
                 launched == ps[Len(ps)].ok
             IN  /\ execs' = [execs EXCEPT ![e] =
                      [listed EXCEPT
                         !.popen = x.popen \o ps,
                         !.pc = IF launched THEN "bat_running" ELSE "raised"]]
                 /\ bat_calls' = IF launched THEN Bump(bat_calls, d)
                                 ELSE bat_calls
      ELSE /\ execs' = [execs EXCEPT ![e] = Return(listed, "returned")]
           /\ UNCHANGED bat_calls

\* _shell_and_bat is entered: _do_shell_calculation up to the creation of the
\* 'shell' process, and when stage 1 is skipped the rest up to stage 2
do_shell_calculation(e) ==
  /\ e \in 1..Len(execs)
  /\ execs[e].pc = "started"
  /\ LET x == execs[e]
         fname_ans == get_file(x.files, RGX_FNAME_ANS)
         fname_bat == get_file(x.files, RGX_FNAME_BAT)
     IN  IF ShellWanted(fname_ans, fname_bat, force)
         THEN \E launched \in BOOLEAN :
                /\ execs' = [execs EXCEPT ![e] =
                     [x EXCEPT
                        !.popen = <<Popen(ShellArgs(fname_ans), FALSE,
                                          ~x.verbose, x.root, launched)>>,
                        !.pc = IF launched THEN "shell_running" ELSE "raised"]]
                /\ shell_calls' = IF launched THEN Bump(shell_calls, x.root)
                                  ELSE shell_calls
                /\ UNCHANGED bat_calls
         ELSE /\ do_bat_calculation(e, fs, NoInt)
              /\ UNCHANGED shell_calls
  /\ io' = NoIO
  /\ UNCHANGED <<inputs, outer, fs, run, pc, sched, history, result, handed>>

\* the 'shell' process exits: _shell_calculation writes what it captured and
\* returns p.poll(); the executor goes on to stage 2
shell_calculation(e) ==
  /\ e \in 1..Len(execs)
  /\ execs[e].pc = "shell_running"
  /\ \E rc \in ExitCodes, wrote_bat \in BOOLEAN,
        out \in Captured(execs[e].verbose), err \in Captured(execs[e].verbose) :
       LET d == execs[e].root
           fname_ans == get_file(execs[e].files, RGX_FNAME_ANS)
           tree == IF wrote_bat
                   THEN [fs EXCEPT ![d] = WriteFile(@, BatNameFor(fname_ans))]
                   ELSE fs
       IN  /\ fs' = tree
           /\ io' = Communicate(d, "shell", execs[e].verbose, out, err,
                                FNAME_STDOUT_SHELL, FNAME_STDERR_SHELL, rc)
           /\ failed' = Failed(failed, rc)
           /\ do_bat_calculation(e, tree, rc)
  /\ UNCHANGED <<inputs, outer, run, pc, sched, walked, pending, result, handed,
                 shell_calls>>

\* variant: a failed 'source' sends the executor through both stages again
AfterBatRetryOnFailure(rc) == IF rc = 0 THEN "returned" ELSE "started"

\* lines 604, 673: whatever the exit status, _shell_and_bat returns
AfterBat(rc) == "returned"

\* the 'source' process exits with status rc: _bat_calculation writes what
\* it captured and _shell_and_bat returns (ret1, rc)
bat_calculation(e) ==
  /\ e \in 1..Len(execs)
  /\ execs[e].pc = "bat_running"
  /\ \E rc \in ExitCodes, n \in 0..Len(LptPool),
        out \in Captured(execs[e].verbose), err \in Captured(execs[e].verbose) :
       LET d == execs[e].root
       IN  /\ fs' = [fs EXCEPT ![d] = WriteFiles(@, SubSeq(LptPool, 1, n))]
           /\ io' = Communicate(d, "bat", execs[e].verbose, out, err,
                                FNAME_STDOUT_BAT, FNAME_STDERR_BAT, rc)
           /\ failed' = Failed(failed, rc)
           /\ execs' = [execs EXCEPT ![e] = Return(@, AfterBat(rc))]
  /\ UNCHANGED <<inputs, outer, run, pc, sched, walked, pending, result, handed,
                 shell_calls, bat_calls>>

\* ------------------------------------------------------ threaded scheduler
\* variant: the outer loop only waits for the pending list
LoopCondTodoOnly(todo, active) == Len(todo) > 0

LoopCond(todo, active) == Len(todo) > 0 \/ Len(active) > 0

\* variant: off by one in the test for a free slot
HasRoomOffByOne(todo, active, n) == Len(todo) > 0 /\ Len(active) <= n

HasRoom(todo, active, n) == Len(todo) > 0 /\ Len(active) < n

\* variant: the pair is read but left in the list
PopTodoKeep(todo) == todo

PopTodo(todo) == SubSeq(todo, 1, Len(todo) - 1)

\* variant: a finished job is counted twice
CountDoneTwice(c) == c + 2

CountDone(c) == c + 1

\* variant: the thread at the head of active_list goes, whichever thread
\* was taken off done_queue
RemoveHead(s, t) == Tail(s)
\* active_list.remove(t): the first occurrence goes
RECURSIVE RemoveFirst(_, _)
RemoveFirst(s, t) ==
  IF Len(s) = 0 THEN s
  ELSE IF Head(s) = t THEN Tail(s)
  ELSE <<Head(s)>> \o RemoveFirst(Tail(s), t)

\* lines 705-711: the loop tests hold and one more thread is started
CoordStart ==
  /\ pc = "loop"
  /\ LoopCond(todo_list, active_list)
  /\ HasRoom(todo_list, active_list, max_open_threads)
  /\ LET job == todo_list[Len(todo_list)]
     IN  /\ todo_list' = PopTodo(todo_list)
         /\ execs' = Append(execs, NewExec(job, FALSE))
         /\ active_list' = Append(active_list, Len(execs) + 1)
         /\ handed' = Bump(handed, job.root)
  /\ io' = NoIO
  /\ UNCHANGED <<inputs, outer, fs, run, pc, history, seq_i, done_queue,
                 jobs_completed, jobs_total, result, shell_calls, bat_calls>>

\* lines 705-713: no more thread can be started, the coordinator turns to
\* done_queue
CoordPoll ==
  /\ pc = "loop"
  /\ LoopCond(todo_list, active_list)
  /\ ~HasRoom(todo_list, active_list, max_open_threads)
  /\ pc' = "drain"
  /\ io' = NoIO
  /\ UNCHANGED <<inputs, outer, fs, run, sched, history, result, execs, handed,
                 shell_calls, bat_calls>>

\* lines 713-720: one turn of the loop that empties done_queue ("drained":
\* a thread has been taken off it in this round); when it is found empty
\* after a thread was taken off, the progress line is rendered
CoordDrain ==
  /\ pc \in {"drain", "drained"}
  /\ IF Len(done_queue) > 0
     THEN /\ done_queue' = Tail(done_queue)
          /\ active_list' = RemoveFirst(active_list, Head(done_queue))
          /\ jobs_completed' = CountDone(jobs_completed)
          /\ pc' = "drained"
          /\ io' = NoIO
     ELSE /\ pc' = "loop"
          /\ io' = Rendering(Progress(verbose) /\ pc = "drained",
                             jobs_completed, jobs_total, FALSE)
          /\ UNCHANGED <<done_queue, active_list, jobs_completed>>
  /\ UNCHANGED <<inputs, outer, fs, run, history, todo_list, seq_i, jobs_total,
                 result, execs, handed, shell_calls, bat_calls>>

\* lines 705, 721-723: the outer test fails and _do_calculation_t returns
CoordReturn ==
  /\ pc = "loop"
  /\ ~LoopCond(todo_list, active_list)
  /\ pc' = "returned"
  /\ result' = (jobs_completed = jobs_total)
  /\ execs' = << >>
  /\ io' = Rendering(Progress(verbose), jobs_completed, jobs_total, TRUE)
  /\ UNCHANGED <<inputs, outer, fs, run, sched, history, handed, shell_calls,
                 bat_calls>>

\* variant: the thread put on the queue is the one started last
QPutLastStarted(q, e, last) == Append(q, last)

\* line 696: q.put(currentThread())
QPut(q, e, last) == Append(q, e)

\* line 696: the worker drops the pair returned by _shell_and_bat and
\* enqueues itself
ThreadPut(e) ==
  /\ pc \in {"loop", "drain", "drained"}
  /\ e \in 1..Len(execs)
  /\ execs[e].pc = "returned"
  /\ execs' = [execs EXCEPT ![e].pc = "notified"]
  /\ done_queue' = QPut(done_queue, e, Len(execs))
  /\ io' = NoIO
  /\ UNCHANGED <<inputs, outer, fs, run, pc, history, todo_list, seq_i, active_list,
                 jobs_completed, jobs_total, result, handed, shell_calls,
                 bat_calls>>

\* ---------------------------------------------------- sequential scheduler
\* lines 746-750: the next pair of todo_walk is handed to _shell_and_bat
SeqCall ==
  /\ pc = "seq"
  /\ seq_i <= Len(todo_list)
  /\ Len(execs) < seq_i
  /\ execs' = Append(execs, NewExec(todo_list[seq_i], verbose))
  /\ handed' = Bump(handed, todo_list[seq_i].root)
  /\ io' = Rendering(Progress(verbose), jobs_completed, jobs_total, FALSE)
  /\ UNCHANGED <<inputs, outer, fs, run, pc, sched, history, result, shell_calls,
                 bat_calls>>

\* line 751: _shell_and_bat has returned, its value is dropped
SeqCount ==
  /\ pc = "seq"
  /\ Len(execs) = seq_i
  /\ execs[seq_i].pc = "returned"
  /\ execs' = [execs EXCEPT ![seq_i].pc = "notified"]
  /\ jobs_completed' = CountDone(jobs_completed)
  /\ seq_i' = seq_i + 1
  /\ io' = NoIO
  /\ UNCHANGED <<inputs, outer, fs, run, pc, history, todo_list, active_list,
                 done_queue, jobs_total, result, handed, shell_calls,
                 bat_calls>>

\* an exception of _shell_and_bat leaves _do_calculation and do_calculations
SeqRaise ==
  /\ pc = "seq"
  /\ Len(execs) = seq_i
  /\ execs[seq_i].pc = "raised"
  /\ pc' = "raised"
  /\ io' = NoIO
  /\ UNCHANGED <<inputs, outer, fs, run, sched, history, result, execs, handed,
                 shell_calls, bat_calls>>

\* lines 752-754
SeqReturn ==
  /\ pc = "seq"
  /\ seq_i > Len(todo_list)
  /\ pc' = "returned"
  /\ result' = (jobs_completed = jobs_total)
  /\ execs' = << >>
  /\ io' = Rendering(Progress(verbose), jobs_completed, jobs_total, TRUE)
  /\ UNCHANGED <<inputs, outer, fs, run, sched, history, handed, shell_calls,
                 bat_calls>>

\* ------------------------------------------------- preparation of the tree
\* '%d' % n
RECURSIVE Str(_)
Str(n) ==
  IF n < 10 THEN <<DigitChar(n)>>
  ELSE Str(n \div 10) \o <<DigitChar(n % 10)>>

DnameZ(z) == <<"Z">> \o Str(z)
DNAME_USDB == <<"u", "s", "d", "b">>
EXT_SP == <<".", "s", "p">>
FNAME_MODEL_SPACE_P_N == <<"p", "n">>
FNAME_MODEL_SPACE_P_PN == <<"p", "p", "n">>
FNAME_MODEL_SPACE_SD_N == <<"s", "d", "n">>
FNAME_MODEL_SPACE_SD_PN == <<"s", "d", "p", "n">>
FNAME_MODEL_SPACE_USDB == <<"s", "d">>
JMIN_EVEN == "0.0"
JMAX_EVEN == "4.0"
JMIN_ODD == "0.5"
JMAX_ODD == "3.5"

P_SHELL_FIRST == 4
SD_SHELL_FIRST == 16
SD_SHELL_END == 40
S_SHELL == 1..(P_SHELL_FIRST - 1)
P_SHELL == P_SHELL_FIRST..(SD_SHELL_FIRST - 1)
SD_SHELL == SD_SHELL_FIRST..(SD_SHELL_END - 1)
MAP_SHELL_TO_MODEL_SPACES ==
  <<[shell |-> S_SHELL,
     sp |-> <<FNAME_MODEL_SPACE_P_N, FNAME_MODEL_SPACE_P_PN>>],
    [shell |-> P_SHELL,
     sp |-> <<FNAME_MODEL_SPACE_P_N, FNAME_MODEL_SPACE_P_PN>>],
    [shell |-> SD_SHELL,
     sp |-> <<FNAME_MODEL_SPACE_SD_N, FNAME_MODEL_SPACE_SD_PN>>]>>

SourcesDirDoesNotExistException == "SourcesDirDoesNotExistException"
NoAvailableModelSpaceException == "NoAvailableModelSpaceException"
UnknownParityException == "UnknownParityException"

\* fname[:fname.rfind('.')], fname itself when it has no period
fname_without_extension(fname) ==
  LET index == RFind(fname, ".")
  IN  IF index # -1 THEN PySlice(fname, 0, index) ELSE fname

\* the model space of mass number a, NoFile for
\* NoAvailableModelSpaceException; sp[n_component-1] for n_component 1 or 2
get_model_space(a, n_component) ==
  LET hits == {i \in 1..Len(MAP_SHELL_TO_MODEL_SPACES) :
                 a \in MAP_SHELL_TO_MODEL_SPACES[i].shell}
  IN  IF hits = {} THEN NoFile
      ELSE MAP_SHELL_TO_MODEL_SPACES[CHOOSE i \in hits : TRUE].sp[n_component]

\* the parity, NoInt for UnknownParityException
get_parity(a, nshell) ==
  IF nshell = 1 THEN a % 2
  ELSE IF nshell = 2 THEN 0
  ELSE NoInt

\* a directory tree is the set of its entries <<path, kind>> below (and
\* including) its root, the path being relative to the root; kind is "dir"
\* or what the file holds
DIR == [dir |-> TRUE]
Exists(tree, p) == \E e \in tree : e[1] = p
Children(tree, p) ==
  {e \in tree : Len(e[1]) = Len(p) + 1 /\ SubSeq(e[1], 1, Len(p)) = p}
mkdir(tree, p) == tree \cup {<<p, DIR>>}
makedirs(tree, p) == tree \cup {<<SubSeq(p, 1, k), DIR>> : k \in 0..Len(p)}
\* open(p, 'w') ... close(), or remove(p) if it exists and link(src, p)
WriteEntry(tree, p, content) == {e \in tree : e[1] # p} \cup {<<p, content>>}

\* variant: the file is written whether or not it is there
RegenerateAlways(force_, tree, p) == TRUE

\* lines 363, 374, 379, 441, 447
Regenerate(force_, tree, p) == force_ \/ ~Exists(tree, p)

\* what _make_ans_file writes
AnsContent(sp_file, interaction_name, z, a, parity) ==
  [sp_file |-> sp_file, interaction_name |-> interaction_name,
   num_protons |-> z, num_nucleons |-> a,
   j_min |-> IF a % 2 = 0 THEN JMIN_EVEN ELSE JMIN_ODD,
   j_max |-> IF a % 2 = 0 THEN JMAX_EVEN ELSE JMAX_ODD,
   parity |-> parity]

\* what a call has done so far: the tree, the files it has written and the
\* exception it has raised
Outcome(tree, written, exc) == [tree |-> tree, written |-> written, exc |-> exc]
Raise(o, exc) == [o EXCEPT !.exc = exc]

\* the directory of the job is made if it is not there (lines 357-358,
\* 436-437)
EnterDir(tree, new_dir) ==
  Outcome(IF Exists(tree, new_dir) THEN tree ELSE mkdir(tree, new_dir),
          {}, NoExc)

\* if force or not path.exists(fpath): (re)write fpath
Generate(o, fpath, content, force_) ==
  IF Regenerate(force_, o.tree, fpath)
  THEN Outcome(WriteEntry(o.tree, fpath, content), o.written \cup {fpath},
               o.exc)
  ELSE o

\* lines 360-366
link_int(o, new_dir, interaction_name, fname, force_) ==
  Generate(o, Append(new_dir, interaction_name \o EXT_INT), [link |-> fname],
           force_)

\* lines 368-376
write_sp(o, new_dir, fname_model_space, formalism, force_) ==
  IF fname_model_space = NoFile
  THEN Raise(o, NoAvailableModelSpaceException)
  ELSE Generate(o, Append(new_dir, fname_model_space \o EXT_SP),
                [template |-> fname_model_space \o EXT_SP,
                 formalism |-> formalism],
                force_)

\* lines 378-393 and 446-458
create_ans(o, fpath_ans, sp_file, interaction_name, z, mass_num, nshell, force_) ==
  IF o.exc # NoExc THEN o
  ELSE IF Regenerate(force_, o.tree, fpath_ans)
          /\ get_parity(mass_num, nshell) = NoInt
  THEN Raise(o, UnknownParityException)
  ELSE Generate(o, fpath_ans,
                AnsContent(sp_file, interaction_name, z, mass_num,
                           get_parity(mass_num, nshell)),
                force_)

\* lines 353-393: one turn of the loop over the interaction files of the
\* sources directory
results_file(tree, cwd_results, fname, a_range_, z, a, force_) ==
  LET mass_num == mass_number_from_filename(fname)
      new_dir == Append(cwd_results, fname_without_extension(fname))
      interaction_name == <<"A">> \o Str(mass_num)
      fname_model_space == get_model_space(mass_num, a.n_component)
  IN  IF mass_num \notin a_range_ THEN Outcome(tree, {}, NoExc)
      ELSE create_ans(
             write_sp(
               link_int(EnterDir(tree, new_dir), new_dir, interaction_name,
                        fname, force_),
               new_dir, fname_model_space, a.formalism, force_),
             Append(new_dir, interaction_name \o EXT_ANS), fname_model_space,
             interaction_name, z, mass_num, a.nshell, force_)

\* lines 439-444
link_sp(o, dname, fname_sp, force_) ==
  Generate(o, Append(dname, fname_sp), [link |-> fname_sp], force_)

\* lines 433-458: one turn of the loop over the mass numbers
usdb_mass(tree, usdb_dirpath, mass_num, z, a, force_) ==
  LET dname == Append(usdb_dirpath, <<"A">> \o Str(mass_num))
  IN  IF mass_num \notin SD_SHELL THEN Outcome(tree, {}, NoExc)
      ELSE create_ans(
             link_sp(EnterDir(tree, dname), dname,
                     FNAME_MODEL_SPACE_USDB \o EXT_SP, force_),
             Append(dname, <<"A">> \o Str(mass_num) \o EXT_ANS),
             FNAME_MODEL_SPACE_USDB, DNAME_USDB, z, mass_num, a.nshell,
             force_)

\* variant: the flag is not looked at
EmptiedWhateverFlag(item_names, remove_root) == item_names = {}

\* line 474
Emptied(item_names, remove_root) == item_names = {} /\ remove_root

\* lines 468-475, the for loop of lines 471-472 being RemoveEach
RECURSIVE remove_empty_directories(_, _, _)
RECURSIVE RemoveEach(_, _)
RemoveEach(tree, subdir_paths) ==
  IF subdir_paths = {} THEN tree
  ELSE LET sd == CHOOSE p \in subdir_paths : TRUE
       IN  RemoveEach(remove_empty_directories(tree, sd, TRUE),
                      subdir_paths \ {sd})

remove_empty_directories(tree, root, remove_root) ==
  LET subdir_paths == {e[1] : e \in {c \in Children(tree, root) : c[2] = DIR}}
      swept == RemoveEach(tree, subdir_paths)
  IN  IF Emptied(Children(swept, root), remove_root)
      THEN swept \ {<<root, DIR>>}
      ELSE swept

\* the names of a set, in some order (that of listdir)
RECURSIVE SetToSeq(_)
SetToSeq(names) ==
  IF names = {} THEN << >>
  ELSE LET f == CHOOSE x \in names : TRUE
       IN  <<f>> \o SetToSeq(names \ {f})

\* files of one (root, dirs, files) of walk()
FilesOf(tree, p) ==
  SetToSeq({e[1][Len(e[1])] : e \in {c \in Children(tree, p) : c[2] # DIR}})

\* lines 783-792 over the results directory: the roots put on todo
Todo(tree, dirpath_z, force_, range) ==
  {p \in {e[1] : e \in {d \in tree : d[2] = DIR}} :
     /\ Len(p) >= Len(dirpath_z)
     /\ SubSeq(p, 1, Len(dirpath_z)) = dirpath_z
     /\ Selected(FilesOf(tree, p), force_, range)}

\* range(lo, hi + 1)
PyRange(lo, hi) == [i \in 1..(hi + 1 - lo) |-> lo + i - 1]
Elements(s) == {s[i] : i \in 1..Len(s)}

\* lines 877-906: arange and zrange of the 5, 6 and 7 argument forms
Arange(a) == PyRange(a.amin, a.amax)
Zrange(a) == PyRange(a.zmin, a.zmax)

\* the frame of do_all_calculations when it is entered over `tree`; prev is
\* how the previous run of the script went
NewBatch(tree, prev) ==
  [zs |-> << >>, z |-> NoInt, a_range |-> << >>, todo |-> {},
   masses |-> << >>, exc |-> NoExc, written |-> {}, before |-> tree,
   dispatched |-> {}, prev |-> prev]

NoRun == [returned |-> FALSE]

\* line 835
do_all_calculations ==
  /\ pc = "script"
  /\ batch' = [NewBatch(results, batch.prev) EXCEPT
                 !.zs = SelectSeq(Zrange(argv), LAMBDA z0 : z0 >= 1)]
  /\ pc' = "for_z"
  /\ UNCHANGED <<inputs, argv, sources, results, fs, run, sched, history,
                 result, execs, handed, shell_calls, bat_calls, io>>

\* variant: the subdirectory is made before the sources directory is looked
\* for
ResultsSubdirFirst(tree, sources_, results_subdir) ==
  makedirs(tree, results_subdir)

\* lines 335-338
ResultsSubdir(tree, sources_, results_subdir) ==
  IF sources_ = NoDir THEN tree
  ELSE IF ~Exists(tree, results_subdir) THEN makedirs(tree, results_subdir)
  ELSE tree

\* lines 333, 427, 837
AtLeastZ(a, z) == a >= z

\* lines 836-344: the next z, arange0, and make_results_dir up to its loop
make_results_dir ==
  /\ pc = "for_z"
  /\ batch.zs # << >>
  /\ LET z == Head(batch.zs)
         arange0 == SelectSeq(Arange(argv), LAMBDA a : AtLeastZ(a, z))
         a_range_ == SelectSeq(arange0, LAMBDA a : AtLeastZ(a, z))
         results_subdir == <<DnameZ(z)>>
     IN  /\ results' = ResultsSubdir(results, sources, results_subdir)
         /\ IF sources = NoDir
            THEN /\ pc' = "raised"
                 /\ batch' = [batch EXCEPT
                      !.z = z, !.a_range = a_range_,
                      !.exc = SourcesDirDoesNotExistException]
            ELSE /\ pc' = "for_fname"
                 /\ batch' = [batch EXCEPT
                      !.z = z, !.a_range = a_range_,
                      !.todo = {f \in sources : re_match(RGX_FNAME_INT, f)}]
  /\ UNCHANGED <<inputs, argv, sources, fs, run, sched, history, result,
                 execs, handed, shell_calls, bat_calls, io>>

\* lines 352-393 for one file, in the order walk() gives them
make_results_file ==
  /\ pc = "for_fname"
  /\ \E fname \in batch.todo :
       LET o == results_file(results, <<DnameZ(batch.z)>>, fname,
                             Elements(batch.a_range), batch.z, argv, force)
       IN  /\ results' = o.tree
           /\ batch' = [batch EXCEPT
                !.todo = @ \ {fname},
                !.written = @ \cup o.written,
                !.exc = o.exc]
           /\ pc' = IF o.exc = NoExc THEN "for_fname" ELSE "raised"
  /\ UNCHANGED <<inputs, argv, sources, fs, run, sched, history, result,
                 execs, handed, shell_calls, bat_calls, io>>

\* lines 427-431: make_results_dir has returned, make_usdb_dir up to its loop
make_usdb_dir ==
  /\ pc = "for_fname"
  /\ batch.todo = {}
  /\ LET usdb_dirpath == <<DnameZ(batch.z), DNAME_USDB>>
     IN  results' = IF ~Exists(results, usdb_dirpath)
                    THEN makedirs(results, usdb_dirpath)
                    ELSE results
  /\ batch' = [batch EXCEPT !.masses = batch.a_range]
  /\ pc' = "for_mass_num"
  /\ UNCHANGED <<inputs, argv, sources, fs, run, sched, history, result,
                 execs, handed, shell_calls, bat_calls, io>>

\* lines 432-458 for one mass number
make_usdb_mass ==
  /\ pc = "for_mass_num"
  /\ batch.masses # << >>
  /\ LET o == usdb_mass(results, <<DnameZ(batch.z), DNAME_USDB>>,
                        Head(batch.masses), batch.z, argv, force)
     IN  /\ results' = o.tree
         /\ batch' = [batch EXCEPT
              !.masses = Tail(@),
              !.written = @ \cup o.written,
              !.exc = o.exc]
         /\ pc' = IF o.exc = NoExc THEN "for_mass_num" ELSE "raised"
  /\ UNCHANGED <<inputs, argv, sources, fs, run, sched, history, result,
                 execs, handed, shell_calls, bat_calls, io>>

\* line 856
sweep_results ==
  /\ pc = "for_mass_num"
  /\ batch.masses = << >>
  /\ results' = remove_empty_directories(results, << >>, FALSE)
  /\ pc' = "walk"
  /\ UNCHANGED <<inputs, argv, sources, batch, fs, run, sched, history,
                 result, execs, handed, shell_calls, bat_calls, io>>

\* lines 857-860: do_calculations over results/Z<z>, from the walk to its
\* return; what its dispatch does to the job directories is left out here
calculations_for_z ==
  /\ pc = "walk"
  /\ batch' = [batch EXCEPT
       !.dispatched = @ \cup Todo(results, <<DnameZ(batch.z)>>, force,
                                  Elements(batch.a_range)),
       !.zs = Tail(@)]
  /\ pc' = "for_z"
  /\ UNCHANGED <<inputs, argv, sources, results, fs, run, sched, history,
                 result, execs, handed, shell_calls, bat_calls, io>>

\* the loop of line 836 is over
all_calculations_done ==
  /\ pc = "for_z"
  /\ batch.zs = << >>
  /\ pc' = "returned"
  /\ UNCHANGED <<inputs, outer, fs, run, sched, history, result, execs,
                 handed, shell_calls, bat_calls, io>>

\* the script is run again with the same arguments over the same sources,
\* with or without -f
script_again ==
  /\ pc \in {"returned", "raised"}
  /\ run < MaxRuns
  /\ run' = run + 1
  /\ force' \in BOOLEAN
  /\ batch' = NewBatch(results, [returned |-> pc = "returned"])
  /\ pc' = "script"
  /\ UNCHANGED <<verbose, stream_lens, threading, a_range, max_open_threads,
                 argv, sources, results, fs, sched, history, result, execs, handed,
                 shell_calls, bat_calls, io>>
\* ------------------------------------------------------- the progress line
WIDTH_TERM == 79
WIDTH_PROGRESS_BAR == 48
STR_PROGRESS_HEAD == <<" ", " ", "P", "r", "o", "g", "r", "e", "s", "s", ":", " ">>
FIELD_WIDTH == 3

\* c * n
Rep(c, n) == [i \in 1..n |-> c]
\* '%3d' % n and '%-3d' % n
Rjust(s, w) == IF Len(s) >= w THEN s ELSE Rep(" ", w - Len(s)) \o s
Ljust(s, w) == IF Len(s) >= w THEN s ELSE s \o Rep(" ", w - Len(s))

\* STR_PROGRESS_BAR % (completed, total)
ProgressText(completed, total) ==
  STR_PROGRESS_HEAD \o Rjust(Str(completed), FIELD_WIDTH) \o <<"/">>
    \o Ljust(Str(total), FIELD_WIDTH) \o <<" ">>

\* a double that is not zero is (hi * 2^26 + lo) * 2^exp with 53 significant
\* bits, 2^26 <= hi < 2^27 and 0 <= lo < 2^26; zero has hi = 0
HALF == 26
Pow2(n) == 2 ^ n
Double(hi, lo, exp) == [hi |-> hi, lo |-> lo, exp |-> exp]
Zero == Double(0, 0, 0)

\* n more quotient bits of r / d for a remainder r < d
RECURSIVE DivBits(_, _, _)
DivBits(r, d, n) ==
  IF n = 0 THEN [q |-> 0, r |-> r]
  ELSE LET rest == DivBits((2 * r) % d, d, n - 1)
       IN  [q |-> ((2 * r) \div d) * Pow2(n - 1) + rest.q, r |-> rest.r]

\* the significand plus one unit in the last place
Succ(x) ==
  IF x.lo + 1 < Pow2(HALF) THEN [x EXCEPT !.lo = @ + 1]
  ELSE IF x.hi + 1 < Pow2(HALF + 1) THEN [x EXCEPT !.lo = 0, !.hi = @ + 1]
  ELSE Double(Pow2(HALF), 0, x.exp + 1)

\* round to nearest, ties to even: dropped is what lies below the last
\* place and half is half a unit of it
RoundEven(x, dropped, half) ==
  IF dropped > half \/ (dropped = half /\ x.lo % 2 = 1) THEN Succ(x) ELSE x

\* the least e with c * 2^e >= t
RECURSIVE Shift(_, _)
Shift(c, t) == IF c >= t THEN 0 ELSE 1 + Shift(2 * c, t)

\* completed / total under `from __future__ import division`, for
\* 0 <= c <= t and t > 0
TrueDiv(c, t) ==
  IF c = 0 THEN Zero
  ELSE LET e == Shift(c, t)
           upper == DivBits(c * Pow2(e) - t, t, HALF)
           lower == DivBits(upper.r, t, HALF)
       IN  RoundEven(Double(Pow2(HALF) + upper.q, lower.q, 0 - (2 * HALF) - e),
                     2 * lower.r, t)

\* the odd part of n and the power of two in it
RECURSIVE TwoPart(_)
TwoPart(n) == IF n % 2 = 1 THEN 0 ELSE 1 + TwoPart(n \div 2)
OddPart(n) == n \div Pow2(TwoPart(n))

\* the bits of a significand above 27
RECURSIVE Excess(_)
Excess(hi) == IF hi < Pow2(HALF + 1) THEN 0 ELSE 1 + Excess(hi \div 2)

\* x * n for a double x and an integer n whose odd part is below 16
Times(x, n) ==
  IF x.hi = 0 THEN Zero
  ELSE LET m == OddPart(n)
           lo_ == (x.lo * m) % Pow2(HALF)
           hi_ == x.hi * m + (x.lo * m) \div Pow2(HALF)
           d == Excess(hi_)
       IN  RoundEven(Double(hi_ \div Pow2(d),
                            lo_ \div Pow2(d) + (hi_ % Pow2(d)) * Pow2(HALF - d),
                            x.exp + TwoPart(n) + d),
                     2 * (lo_ % Pow2(d)), Pow2(d))

\* int(floor(x)) for 0 <= x < 2^27
FloorOf(x) ==
  IF x.hi = 0 \/ x.exp + HALF < 0 - HALF THEN 0
  ELSE IF x.exp + HALF <= 0 THEN x.hi \div Pow2(0 - (x.exp + HALF))
  ELSE x.hi * Pow2(x.exp + HALF)
         + (IF x.exp < 0 THEN x.lo \div Pow2(0 - x.exp)
            ELSE x.lo * Pow2(x.exp))

\* lines 644-645
BarFill(completed, total, bar_len) ==
  FloorOf(Times(TrueDiv(completed, total), bar_len))

\* variant: the line is always ended
TerminatedAlways(line, end) == line \o <<"\n">>

\* lines 651-652
Terminated(line, end) == IF end THEN line \o <<"\n">> ELSE line

\* lines 643-652: the line that is written, for total > 0
print_progress(completed, total, end) ==
  LET text == ProgressText(completed, total)
      bar_fill == BarFill(completed, total, WIDTH_PROGRESS_BAR)
      progress_bar == <<"[">> \o Rep("#", bar_fill)
                        \o Rep(" ", WIDTH_PROGRESS_BAR - bar_fill) \o <<"]">>
      sp_fill_len == Max2(WIDTH_TERM - Len(text) - Len(progress_bar), 0)
  IN  Terminated(<<"\r">> \o text \o Rep(" ", sp_fill_len) \o progress_bar,
                 end)

\* the requests of a step with what each puts on stdout
Stdout(requests) ==
  [i \in 1..Len(requests) |->
     [completed |-> requests[i].completed, total |-> requests[i].total,
      end |-> requests[i].end,
      line |-> print_progress(requests[i].completed, requests[i].total,
                              requests[i].end)]]

\* most jobs of a dispatch whose progress line is looked at
MaxTotal == 12

\* _print_progress is about to be called for some completed of some total
ProgressInit ==
  /\ force = FALSE
  /\ verbose = FALSE
  /\ stream_lens = {0}
  /\ threading \in BOOLEAN
  /\ a_range = {}
  /\ max_open_threads = MAX_OPEN_THREADS
  /\ fs = [d \in Dirs |-> << >>]
  /\ run = 1 /\ walked = fs /\ pending = {} /\ todo_list = << >>
  /\ seq_i = 1 /\ active_list = << >> /\ done_queue = << >>
  /\ jobs_total \in 0..MaxTotal
  /\ jobs_completed \in 0..jobs_total
  /\ result = NoBool /\ execs = << >> /\ handed = NoCalls
  /\ shell_calls = NoCalls /\ bat_calls = NoCalls /\ failed = Unwatched
  /\ io = NoIO
  /\ pc = "progress"
  /\ argv = << >> /\ sources = NoDir /\ results = {} /\ batch = << >>

\* lines 697, 719, 721, 745, 752, 753: one call of _print_progress
print_progress_call ==
  /\ pc = "progress"
  /\ \E end \in BOOLEAN :
       io' = [NoIO EXCEPT
                !.rendered = Stdout(Render(jobs_completed, jobs_total, end))]
  /\ pc' = "printed"
  /\ UNCHANGED <<inputs, outer, fs, run, sched, history, result, execs,
                 handed, shell_calls, bat_calls>>

ProgressNext == print_progress_call

ProgressSpec == ProgressInit /\ [][ProgressNext]_vars
\* ------------------------------------ remove_empty_directories on any tree
\* most directories and files below the root
MaxNodes == 4
Names == {<<"d">>, <<"e">>}

\* the sets of at most n paths that hold the directory of each of their paths
RECURSIVE Shapes(_)
Shapes(n) ==
  IF n = 0 THEN {{}}
  ELSE LET smaller == Shapes(n - 1)
       IN  smaller \cup
           UNION {{s \cup {Append(p, name)} :
                     p \in s \cup {<< >>}, name \in Names} : s \in smaller}

\* the trees of a shape: a path that is the directory of no other is a file
\* or an empty directory
TreesOf(shape) ==
  LET leaves == {p \in shape : \A q \in shape : Len(q) = 0 \/ SubSeq(q, 1, Len(q) - 1) # p}
  IN  {{<<p, IF p \in fnames THEN [link |-> p[Len(p)]] ELSE DIR>> :
          p \in shape \cup {<< >>}} : fnames \in SUBSET leaves}

AnyTrees == UNION {TreesOf(s) : s \in Shapes(MaxNodes)}

\* remove_empty_directories is about to be called on the root of some tree
PruneInit ==
  /\ force = FALSE
  /\ verbose = FALSE
  /\ stream_lens = {0}
  /\ threading = FALSE
  /\ a_range = {}
  /\ max_open_threads = MAX_OPEN_THREADS
  /\ fs = [d \in Dirs |-> << >>]
  /\ Fresh
  /\ failed = Unwatched
  /\ pc = "prune"
  /\ argv = << >>
  /\ sources = NoDir
  /\ results \in AnyTrees
  /\ batch = << >>

\* lines 461-475: one call, with either value of remove_root
prune ==
  /\ pc = "prune"
  /\ \E remove_root \in BOOLEAN :
       /\ results' = remove_empty_directories(results, << >>, remove_root)
       /\ batch' = [before |-> results, remove_root |-> remove_root]
  /\ pc' = "pruned"
  /\ UNCHANGED <<inputs, argv, sources, fs, run, sched, history, result,
                 execs, handed, shell_calls, bat_calls, io>>

PruneNext == prune

PruneSpec == PruneInit /\ [][PruneNext]_vars
\* ------------------------------------------------------------ specification
ExecIds == 1..NumDirs

Next ==
  \/ do_calculations
  \/ Rerun
  \/ \E e \in ExecIds : do_shell_calculation(e)
  \/ \E e \in ExecIds : shell_calculation(e)
  \/ \E e \in ExecIds : bat_calculation(e)
  \/ CoordStart
  \/ CoordPoll
  \/ CoordDrain
  \/ CoordReturn
  \/ \E e \in ExecIds : ThreadPut(e)
  \/ SeqCall
  \/ SeqCount
  \/ SeqRaise
  \/ SeqReturn

Spec == Init /\ [][Next]_vars

ExecSpec == ExecInit /\ [][Next]_vars

OutcomeSpec == OutcomeInit /\ [][Next]_vars

\* the thread that called do_calculations
MainThread ==
  \/ do_calculations
  \/ CoordStart \/ CoordPoll \/ CoordDrain \/ CoordReturn
  \/ SeqCall \/ SeqCount \/ SeqRaise \/ SeqReturn

\* executor e: a worker thread and the processes it waits for
Worker(e) ==
  \/ do_shell_calculation(e)
  \/ shell_calculation(e)
  \/ bat_calculation(e)
  \/ ThreadPut(e)

\* threads are fairly scheduled and a launched process exits; when the script
\* is run again is up to the user
Fairness ==
  /\ WF_vars(MainThread)
  /\ \A e \in ExecIds : WF_vars(Worker(e))

FairSpec == Spec /\ Fairness

\* the job whose process may never exit: the first directory
Hung == CHOOSE d \in Dirs : \A o \in Dirs : d <= o

\* executor e without the exit of a process in the directory Hung
WorkerButHung(e) ==
  \/ do_shell_calculation(e)
  \/ ThreadPut(e)
  \/ /\ e \in 1..Len(execs)
     /\ execs[e].root # Hung
     /\ shell_calculation(e) \/ bat_calculation(e)

\* threads are fairly scheduled and every launched process exits, except
\* that a process in the directory Hung need not: communicate() has no
\* timeout (lines 532, 543, 589, 604)
HungFairness ==
  /\ WF_vars(MainThread)
  /\ \A e \in ExecIds : WF_vars(WorkerButHung(e))

HungSpec == Spec /\ HungFairness

\* ------------------------------------------- the script and its arguments
\* largest Amax - Amin and Zmax - Zmin, files in the sources directory
MaxSpan == 1
MaxSources == 2

Amins == {3, 16, 39}
Zmins == {0, 2}
\* nshell and ncomponent: the p shell with neutrons, the sd shell and a
\* shell whose parity rule is not known with protons and neutrons
Shells == {<<1, 1>>, <<2, 2>>, <<3, 2>>}
AInt(m) == <<"A">> \o Str(m) \o EXT_INT
SourcePool == {AInt(3), AInt(16), AInt(39), AInt(40)}

\* the script is started: any arguments, a sources directory that may be
\* missing, a results directory that is not there yet
PrepInit ==
  /\ force \in BOOLEAN
  /\ verbose = FALSE
  /\ stream_lens = {0}
  /\ threading = FALSE
  /\ a_range = {}
  /\ max_open_threads = MAX_OPEN_THREADS
  /\ fs = [d \in Dirs |-> << >>]
  /\ Fresh
  /\ failed = Unwatched
  /\ pc = "script"
  /\ \E amin \in Amins, zmin \in Zmins, da, dz \in 0..MaxSpan,
        shell \in Shells :
       argv = [amin |-> amin, amax |-> amin + da, zmin |-> zmin,
               zmax |-> zmin + dz, nshell |-> shell[1],
               n_component |-> shell[2], formalism |-> "pn"]
  /\ sources \in {NoDir} \cup {s \in SUBSET SourcePool :
                                 Cardinality(s) <= MaxSources}
  /\ results = {}
  /\ batch = NewBatch(results, NoRun)

PrepNext ==
  \/ do_all_calculations
  \/ make_results_dir
  \/ make_results_file
  \/ make_usdb_dir
  \/ make_usdb_mass
  \/ sweep_results
  \/ calculations_for_z
  \/ all_calculations_done
  \/ script_again

PrepSpec == PrepInit /\ [][PrepNext]_vars

\* ------------------------------------------------------------- properties
Discovered == pc # "idle"
ThreadedRun == threading /\ jobs_total > 1
ThreadedDispatching == pc \in {"loop", "drain", "drained"}

Execs == 1..Len(execs)
InFlight ==
  {e \in Execs : execs[e].pc \in {"started", "shell_running", "bat_running"}}

HasFile(listing, f) == \E i \in 1..Len(listing) : listing[i] = f
HasExt(listing, ext) ==
  \E i \in 1..Len(listing) :
    /\ Len(listing[i]) > Len(ext)
    /\ SubSeq(listing[i], Len(listing[i]) - Len(ext) + 1, Len(listing[i])) = ext
NumLpt(listing) ==
  Cardinality({i \in 1..Len(listing) :
    /\ Len(listing[i]) > 4
    /\ SubSeq(listing[i], Len(listing[i]) - 3, Len(listing[i])) = EXT_LPT})
NoInvocation(d) == shell_calls[d] = 0 /\ bat_calls[d] = 0

\* 'A%d' % m for a mass number below 10
IntFileOfMass(m) == <<"A", DigitChar(m)>> \o EXT_INT

\* C1: while the threaded scheduler runs, the threads that have been started
\* and whose _shell_and_bat has not returned are at most _max_open_threads.
C1_InFlightBounded ==
  ThreadedDispatching => Cardinality(InFlight) <= max_open_threads

\* C1 witness: every slot is taken by a running executor while a job waits.
C1_Witness ==
  /\ ThreadedDispatching
  /\ Len(todo_list) > 0
  /\ Cardinality(InFlight) = max_open_threads
  /\ \E e \in InFlight : execs[e].pc # "started"

\* C2: without force, a directory that holds more than one .lpt file when
\* the run starts sees neither 'shell' nor 'source' launched during the run.
C2_DoneNeverInvoked ==
  (Discovered /\ ~force) =>
    \A d \in Dirs : NumLpt(walked[d]) > 1 => NoInvocation(d)

\* C3 as stated: the second unforced run launches no program in any
\* directory, whatever the programs of the first run did.
C3_SecondRunIdle ==
  (run = 2 /\ Discovered) => \A d \in Dirs : NoInvocation(d)

\* C3 as amended: the second unforced run launches no program in a directory
\* that holds a .bat file when the first run has terminated.
C3_SecondRunIdleWithBat ==
  (run = 2 /\ Discovered) =>
    \A d \in Dirs : HasExt(walked[d], EXT_BAT) => NoInvocation(d)

\* C3 witness: the second run is over; it found a directory with a .bat file
\* and too few reports and left it alone, and it ran another directory again.
C3_Witness ==
  /\ run = 2
  /\ pc = "returned"
  /\ \E d \in Dirs :
       /\ HasExt(walked[d], EXT_BAT)
       /\ NumLpt(walked[d]) <= 1
       /\ NoInvocation(d)
  /\ \E d \in Dirs : shell_calls[d] > 0

\* C4: an exception inside one executor neither leaves the scheduler (the
\* sequential loop is not abandoned) nor leaves a dead thread in active_list
\* without a completion notice (the threaded loop could then never end).
C4_FailureContained ==
  /\ pc # "raised"
  /\ \A e \in Execs :
       (ThreadedDispatching /\ execs[e].pc = "raised") =>
         \A i \in 1..Len(active_list) : active_list[i] # e

\* C5: jobs_completed stays within 0..jobs_total, jobs_total is the size of
\* the pending set, and neither changes except that a dispatch counts up.
C5_CompletedMonotoneBounded ==
  /\ [](Discovered =>
          /\ 0 <= jobs_completed
          /\ jobs_completed <= jobs_total
          /\ jobs_total = Cardinality(pending))
  /\ [][pc # "idle" =>
          /\ jobs_completed' >= jobs_completed
          /\ jobs_total' = jobs_total]_vars

\* C5 witness: a threaded dispatch has counted some but not all of its jobs.
C5_Witness ==
  /\ ThreadedDispatching
  /\ jobs_completed > 0
  /\ jobs_completed < jobs_total

\* C6: a dispatch that has returned has counted every job and returned true,
\* and the threaded one has left neither a pending pair nor an active thread.
C6_ReturnMeansAllDone ==
  pc = "returned" =>
    /\ jobs_completed = jobs_total
    /\ result = TRUE
    /\ ThreadedRun => (todo_list = << >> /\ active_list = << >>)

\* C6 witness: a threaded dispatch of every directory has returned.
C6_Witness ==
  /\ pc = "returned"
  /\ ThreadedRun
  /\ jobs_total = NumDirs
  /\ result = TRUE

\* C7: under fair scheduling, with every launched process exiting, a
\* threaded dispatch ends, every pending directory having been handed out.
C7_ThreadedTerminates ==
  ThreadedDispatching ~>
    (pc = "returned" /\ \A d \in pending : handed[d] = 1)

\* C8: a directory is handed to _shell_and_bat at most once, only if it was
\* selected from the listing walk() saw, exactly once by the time the
\* dispatch returns, and two executors in flight never share a directory.
C8_HandedOnce ==
  /\ \A d \in Dirs : handed[d] <= 1 /\ (handed[d] = 1 => d \in pending)
  /\ Discovered =>
       pending = {d \in Dirs : Selected(walked[d], force, a_range)}
  /\ pc = "returned" => \A d \in pending : handed[d] = 1
  /\ \A e1, e2 \in InFlight : e1 # e2 => execs[e1].root # execs[e2].root

\* C8 witness: two executors are running their programs at the same time,
\* one of which has already written into its directory.
C8_Witness ==
  \E e1, e2 \in InFlight :
    /\ e1 # e2
    /\ execs[e1].pc = "bat_running"
    /\ execs[e2].pc = "shell_running"
    /\ fs[execs[e1].root] # walked[execs[e1].root]

\* C9: every pending directory holds the interaction file of a mass number
\* that is a member of a_range.
C9_PendingInRange ==
  Discovered =>
    \A d \in pending : \E m \in a_range : HasFile(walked[d], IntFileOfMass(m))

\* C9 witness: discovery has selected one directory and passed over one whose
\* interaction file has a mass number outside a_range.
C9_Witness ==
  /\ Discovered
  /\ pending # {}
  /\ \E d \in Dirs \ pending :
       \E m \in (UNION Ranges) \ a_range : HasFile(walked[d], IntFileOfMass(m))

\* C10: discovery selects a directory with an in-range interaction file
\* unless it holds a .bat file, force is false and it is completed.
C10_SelectedUnlessCompleted ==
  Discovered =>
    \A d \in Dirs :
      d \in pending <=>
        /\ \E m \in a_range : HasFile(walked[d], IntFileOfMass(m))
        /\ ~(HasExt(walked[d], EXT_BAT) /\ ~force /\ NumLpt(walked[d]) > 1)

\* --------------------------------------------------- executor properties
\* the executors whose stage-1 decision has been taken and whose frame is
\* still there, and those that have returned
PastStage1 == {e \in Execs : execs[e].pc \in {"shell_running", "bat_running", "raised"}}
Returned == {e \in Execs : execs[e].pc \in {"returned", "notified"}}

\* Popen was called for 'shell' / for 'source' by an executor whose frame is
\* still there
ShellPopens(x) == {i \in 1..Len(x.popen) : x.popen[i].args[1] = "shell"}
SourcePopens(x) == {i \in 1..Len(x.popen) : x.popen[i].args[1] = "source"}

FileWithExt(listing, ext) ==
  {listing[i] : i \in {j \in 1..Len(listing) :
     /\ Len(listing[j]) > Len(ext)
     /\ SubSeq(listing[j], Len(listing[j]) - Len(ext) + 1, Len(listing[j])) = ext}}

\* C11: with force, every directory with an in-range interaction file is
\* selected; an executor that has taken its stage-1 decision has called
\* 'shell' if its listing holds an .ans file; one that has returned has run
\* 'source' if its directory holds a .bat file, whatever reports are there.
C11_ForceOverridesOracle ==
  (force /\ Discovered) =>
    /\ pending =
         {d \in Dirs : \E m \in a_range : HasFile(walked[d], IntFileOfMass(m))}
    /\ \A e \in PastStage1 :
         HasExt(execs[e].files, EXT_ANS) =>
           (ShellPopens(execs[e]) # {} \/ shell_calls[execs[e].root] > 0)
    /\ \A e \in Returned :
         LET d == execs[e].root
         IN  /\ HasExt(execs[e].files, EXT_ANS) => shell_calls[d] > 0
             /\ HasExt(fs[d], EXT_BAT) => bat_calls[d] > 0

\* C11 witness: a forced run has been through both stages in a directory
\* that held a .bat file and two reports when the run started.
C11_Witness ==
  /\ force
  /\ \E e \in Returned :
       LET d == execs[e].root
       IN  /\ HasExt(walked[d], EXT_BAT)
           /\ NumLpt(walked[d]) > 1
           /\ shell_calls[d] = 1
           /\ bat_calls[d] = 1

\* C12: 'shell' is called exactly when the listing handed to the executor
\* holds an .ans file and (no .bat file or force); the call has the .ans
\* file as its one argument and the job directory as cwd and does not go
\* through an interpreter; when it is not called ret1 is None.
C12_Stage1Decision ==
  /\ \A e \in PastStage1 :
       LET x == execs[e]
           wanted == /\ HasExt(x.files, EXT_ANS)
                     /\ (~HasExt(x.files, EXT_BAT) \/ force)
       IN  /\ (ShellPopens(x) # {}) <=> wanted
           /\ ShellPopens(x) \subseteq {1}
           /\ \A i \in ShellPopens(x) :
                /\ Len(x.popen[i].args) = 2
                /\ x.popen[i].args[2] \in FileWithExt(x.files, EXT_ANS)
                /\ x.popen[i].cwd = x.root
                /\ ~x.popen[i].shell
           /\ (ShellPopens(x) = {}) => x.ret1 = NoInt
  /\ \A e \in Returned :
       LET x == execs[e]
       IN  (shell_calls[x.root] > 0) <=>
             /\ HasExt(x.files, EXT_ANS)
             /\ (~HasExt(x.files, EXT_BAT) \/ force)

\* C12 witness: of two executors in stage 2, one skipped stage 1 because its
\* listing had no .ans file and the other holds the exit status of 'shell'.
C12_Witness ==
  \E e1, e2 \in PastStage1 :
    /\ execs[e1].pc = "bat_running"
    /\ ShellPopens(execs[e1]) = {}
    /\ execs[e1].ret1 = NoInt
    /\ execs[e2].pc = "bat_running"
    /\ ShellPopens(execs[e2]) = {1}
    /\ execs[e2].ret1 \in ExitCodes

\* C13: 'source' is called only once 'shell', if it was called, has exited
\* (ret1 holds its status, whatever it is), and exactly when the listing
\* taken after stage 1 holds a .bat file and (force or at most one report
\* is in the directory); that listing is the directory as stage 1 left it.
C13_Stage2Decision ==
  /\ \A e \in Execs :
       execs[e].pc \in {"started", "shell_running"} =>
         (SourcePopens(execs[e]) = {} /\ bat_calls[execs[e].root] = 0)
  /\ \A e \in PastStage1 :
       LET x == execs[e]
       IN  SourcePopens(x) # {} =>
             /\ ShellPopens(x) # {} => x.ret1 \in ExitCodes
             /\ HasExt(x.new_files, EXT_BAT)
             /\ force \/ NumLpt(x.new_files) <= 1
             /\ x.pc = "bat_running" => x.new_files = fs[x.root]
  /\ \A e \in Returned :
       LET d == execs[e].root
       IN  bat_calls[d] = 0 =>
             ~(HasExt(fs[d], EXT_BAT) /\ (force \/ NumLpt(fs[d]) <= 1))

\* C13 witness: 'shell' has exited with a nonzero status and left a .bat
\* file that the listing handed to the executor did not have; 'source' runs.
C13_Witness ==
  \E e \in PastStage1 :
    /\ execs[e].pc = "bat_running"
    /\ execs[e].ret1 = 1
    /\ ~HasExt(execs[e].files, EXT_BAT)
    /\ HasExt(execs[e].new_files, EXT_BAT)

\* C14: the calls of Popen for 'source' are the argument list, not through
\* the interpreter, and after it, exactly when that call raised OSError, one
\* call of the same command line joined, with shell=True, the same cwd and
\* the same streams (piped exactly when not verbose); no directory sees more
\* than one 'source' process in a run, whatever its exit status.
C14_RetryOnlyOnLaunchFailure ==
  /\ \A d \in Dirs : bat_calls[d] <= 1
  /\ \A e \in PastStage1 :
       LET x == execs[e]
           ps == SelectSeq(x.popen, LAMBDA p : p.args[1] = "source")
       IN  Len(ps) > 0 =>
             /\ Len(ps) <= 2
             /\ ~ps[1].shell
             /\ Len(ps[1].args) = 2
             /\ (Len(ps) = 2) <=> ~ps[1].ok
             /\ \A i \in 1..Len(ps) :
                  ps[i].piped = ~x.verbose /\ ps[i].cwd = x.root
             /\ Len(ps) = 2 =>
                  /\ ps[2].shell
                  /\ ps[2].args = <<ps[1].args[1], " ", ps[1].args[2]>>
             /\ x.pc = "bat_running" <=> ps[Len(ps)].ok

\* C14 witness: in verbose mode the argument list could not be launched and
\* the command line run through the interpreter is now running.
C14_Witness ==
  \E e \in PastStage1 :
    /\ execs[e].verbose
    /\ execs[e].pc = "bat_running"
    /\ Cardinality(SourcePopens(execs[e])) = 2

\* C15: every Popen of an argument list that raised OSError, for 'shell' as
\* for 'source', is followed by one Popen of the joined command line through
\* the interpreter, and no launch failure leaves _shell_and_bat as an
\* exception: the executor returns and its job is counted.
C15_LaunchFailureRetriedAndCounted ==
  \A e \in Execs :
    LET x == execs[e]
    IN  /\ \A i \in 1..Len(x.popen) :
             (~x.popen[i].ok /\ ~x.popen[i].shell) =>
               /\ i < Len(x.popen)
               /\ x.popen[i + 1].shell
               /\ x.popen[i + 1].args = JoinArgs(x.popen[i].args)
        /\ x.pc # "raised"

\* C16: in a run with verbose=True no process is created with its streams
\* piped and no capture file is opened, threads or not.
C16_VerboseNeverCaptures ==
  (verbose /\ Discovered) =>
    /\ \A e \in Execs :
         \A i \in 1..Len(execs[e].popen) : ~execs[e].popen[i].piped
    /\ io.opened = {}

\* the capture files of a stage, as the claims name them
StdoutFileOf(stage) ==
  IF stage = "shell" THEN "__stdout_shell__.txt" ELSE "__stdout_bat__.txt"
StderrFileOf(stage) ==
  IF stage = "shell" THEN "__stderr_shell__.txt" ELSE "__stderr_bat__.txt"

\* C17: when a process run with piped streams has exited, the executor has
\* opened for writing the stage's stdout file exactly if something was read
\* from stdout and the stage's stderr file exactly if something was read
\* from stderr, both in the job directory, and no other file.
C17_CaptureIffNonEmpty ==
  (io.stage # "none" /\ io.piped) =>
    /\ (<<io.root, StdoutFileOf(io.stage)>> \in io.opened) <=> io.out > 0
    /\ (<<io.root, StderrFileOf(io.stage)>> \in io.opened) <=> io.err > 0
    /\ io.opened \subseteq
         {<<io.root, StdoutFileOf(io.stage)>>, <<io.root, StderrFileOf(io.stage)>>}
    /\ \E e \in Execs : execs[e].root = io.root /\ ~execs[e].verbose

\* C17 witness: 'source' has exited having written to stdout only, and only
\* the stdout file of stage 2 has been written.
C17_Witness ==
  /\ io.stage = "bat"
  /\ io.piped
  /\ io.out > 0
  /\ io.err = 0
  /\ io.opened = {<<io.root, "__stdout_bat__.txt">>}

\* C18: in one run no directory sees more than one 'shell' process nor more
\* than one 'source' process, whatever their exit statuses.
C18_EachProgramOncePerJob ==
  \A d \in Dirs : shell_calls[d] <= 1 /\ bat_calls[d] <= 1

\* C18 witness: 'source' has just exited with a nonzero status after 'shell'
\* ran in the same directory, and the executor has returned.
C18_Witness ==
  /\ io.stage = "bat"
  /\ io.status = 1
  /\ shell_calls[io.root] = 1
  /\ bat_calls[io.root] = 1
  /\ \E e \in Returned : execs[e].root = io.root

\* C19: _calc_has_been_done answers true for a directory exactly when it
\* holds more than one file with the extension .lpt: false with none or one,
\* whatever else is in the directory and whatever the programs returned.
C19_DoneIffTwoReports ==
  \A d \in Dirs :
    /\ calc_has_been_done(fs[d]) <=> NumLpt(fs[d]) > 1
    /\ calc_has_been_done(walked[d]) <=> NumLpt(walked[d]) > 1
    /\ NumLpt(fs[d]) \in {0, 1} => ~calc_has_been_done(fs[d])

\* C19 witness: in one directory 'source' has left a single report and
\* _calc_has_been_done is false there; in another, stage 2 was not run
\* because two reports were found.
C19_Witness ==
  /\ ~force
  /\ \E d \in Dirs :
       /\ bat_calls[d] = 1
       /\ NumLpt(fs[d]) = 1
       /\ ~calc_has_been_done(fs[d])
  /\ \E e \in Returned :
       LET d == execs[e].root
       IN  /\ HasExt(fs[d], EXT_BAT)
           /\ bat_calls[d] = 0
           /\ NumLpt(fs[d]) = 2
           /\ calc_has_been_done(fs[d])

\* C20: while the threaded scheduler runs, a step of an executor leaves
\* jobs_completed, active_list, todo_list and jobs_total alone and renders
\* nothing; all it may do to done_queue is to put its own thread on it; and
\* a step that changes one of the three or renders leaves every executor
\* as it is.
C20_OnlyCoordinatorWrites ==
  [][ThreadedDispatching =>
       /\ \A e \in Execs :
            (Len(execs') = Len(execs) /\ execs'[e] # execs[e]) =>
              /\ jobs_completed' = jobs_completed
              /\ active_list' = active_list
              /\ todo_list' = todo_list
              /\ jobs_total' = jobs_total
              /\ io'.rendered = << >>
              /\ done_queue' = done_queue \/ done_queue' = Append(done_queue, e)
       /\ (\/ jobs_completed' # jobs_completed
           \/ active_list' # active_list
           \/ todo_list' # todo_list
           \/ io'.rendered # << >>) =>
            \/ execs' = << >>
            \/ \A e \in Execs : execs'[e] = execs[e]
       /\ done_queue' # done_queue =>
            \/ \E e \in Execs : done_queue' = Append(done_queue, e)
            \/ done_queue' = Tail(done_queue) /\ execs' = execs]_vars

\* C20 witness: the coordinator has counted a finished thread and rendered
\* the progress line while another job is still to be counted.
C20_Witness ==
  /\ pc = "loop"
  /\ io.rendered # << >>
  /\ jobs_completed > 0
  /\ jobs_completed < jobs_total

\* C21: every Popen of an executor, 'shell' or 'source', direct or through
\* the shell, is called with cwd bound to the executor's own directory,
\* whatever the other executors in flight are doing.
C21_CwdBoundToOwnRoot ==
  \A e \in Execs :
    \A i \in 1..Len(execs[e].popen) : execs[e].popen[i].cwd = execs[e].root

\* C21 witness: two executors run a process at the same time in different
\* directories, one of them created through the shell after an OSError.
C21_Witness ==
  \E e, f \in Execs :
    /\ execs[e].root # execs[f].root
    /\ execs[e].pc \in {"shell_running", "bat_running"}
    /\ execs[f].pc = "bat_running"
    /\ \E i \in 1..Len(execs[f].popen) :
         execs[f].popen[i].shell /\ execs[f].popen[i].ok

\* C22: a dispatch that has returned has returned true exactly when no
\* process of its jobs exited with a nonzero status.
C22_TrueIffAllSucceeded ==
  pc = "returned" => (result = TRUE <=> failed = AllZero)

\* ------------------------------------------------ preparation properties
\* the mass numbers and proton numbers the script can be asked for
Masses == UNION {a..(a + MaxSpan) : a \in Amins}
Protons == (UNION {z..(z + MaxSpan) : z \in Zmins}) \ {0}
AName(a) == <<"A">> \o Str(a)

\* the job directory of an interaction file of the sources, and of usdb
JobDir(z, a) == <<DnameZ(z), AName(a)>>
UsdbJobDir(z, a) == <<DnameZ(z), DNAME_USDB, AName(a)>>
JobDirs(tree) ==
  {d \in {JobDir(z, a) : z \in Protons, a \in Masses} : Exists(tree, d)}
UsdbJobDirs(tree) ==
  {d \in {UsdbJobDir(z, a) : z \in Protons, a \in Masses} : Exists(tree, d)}

\* the files of a tree, the directory of a path and the extension of a name
FilesIn(tree) == {e[1] : e \in {f \in tree : f[2] # DIR}}
Parent(p) == SubSeq(p, 1, Len(p) - 1)
ExtOf(p) == PySlice(p[Len(p)], RFind(p[Len(p)], "."), Len(p[Len(p)]))
ExtsOf(paths, d) == {ExtOf(p) : p \in {q \in paths : Parent(q) = d}}

Stopped == pc \in {"returned", "raised"}

\* C23: when make_results_dir has raised SourcesDirDoesNotExistException,
\* nothing has been created under the results directory, no file has been
\* written and no directory has been handed to do_calculations.
C23_RaisedBeforeAnyEffect ==
  (pc = "raised" /\ batch.exc = SourcesDirDoesNotExistException) =>
    /\ results = batch.before
    /\ batch.written = {}
    /\ batch.dispatched = {}
    /\ \A d \in Dirs : NoInvocation(d)

\* C23 witness: the script was asked for the sd shell and a Z above 0, and
\* has stopped on the missing sources directory.
C23_Witness ==
  /\ pc = "raised"
  /\ batch.exc = SourcesDirDoesNotExistException
  /\ sources = NoDir
  /\ argv.amin \in SD_SHELL
  /\ batch.zs # << >>

\* C24: an unknown model space or an unknown parity rule stops only its own
\* job: when the script has stopped after one, the other files of that Z,
\* its usdb directories and the remaining Z values have all been gone
\* through.
C24_ErrorConfinedToJob ==
  (Stopped /\ batch.exc \in {NoAvailableModelSpaceException,
                             UnknownParityException}) =>
    /\ batch.todo = {}
    /\ batch.masses = << >>
    /\ batch.zs = << >>

\* C25: no job directory is made or handed to do_calculations for a pair
\* (A, Z) with A < 2*Z.
C25_RangeIsTwiceZ ==
  \A z \in Protons, a \in Masses :
    a < 2 * z =>
      /\ ~Exists(results, JobDir(z, a))
      /\ ~Exists(results, UsdbJobDir(z, a))
      /\ JobDir(z, a) \notin batch.dispatched
      /\ UsdbJobDir(z, a) \notin batch.dispatched

\* C26: when do_all_calculations has returned, every usdb job directory of
\* the results directory has been handed to do_calculations' dispatch.
C26_UsdbExecuted ==
  pc = "returned" => UsdbJobDirs(results) \subseteq batch.dispatched

\* the files make_results_dir makes in a job directory, and make_usdb_dir
ThreeFiles == {EXT_INT, EXT_SP, EXT_ANS}
TwoFiles == {EXT_SP, EXT_ANS}

\* without force no file that was there is written again or changed
KeptWithoutForce ==
  ~force =>
    /\ batch.written \cap FilesIn(batch.before) = {}
    /\ \A e \in batch.before : e[2] # DIR => e \in results

\* a second run without force after a run that returned leaves the tree as
\* it found it
SameTreeTwice ==
  (~force /\ pc = "returned" /\ batch.prev.returned) =>
    results = batch.before /\ batch.written = {}

Count(line, c) == Cardinality({i \in 1..Len(line) : line[i] = c})
\* the cells of the bar: what lies between the brackets
Cells(line) ==
  LET open == CHOOSE i \in 1..Len(line) : line[i] = "["
      close == CHOOSE i \in 1..Len(line) : line[i] = "]"
  IN  SubSeq(line, open + 1, close - 1)

\* C27: for total > 0 what _print_progress writes starts with a carriage
\* return, holds one bar of 48 cells of which the first
\* floor(48 * completed / total) are filled, none when completed is 0 and
\* all of them exactly when completed is total, and ends with a line
\* terminator, its only one, iff end is true; for total = 0 nothing is
\* written.
C27_ProgressLine ==
  pc = "printed" =>
    IF jobs_total = 0 THEN io.rendered = << >>
    ELSE /\ Len(io.rendered) = 1
         /\ LET line == io.rendered[1].line
                end == io.rendered[1].end
                fill == (WIDTH_PROGRESS_BAR * jobs_completed) \div jobs_total
            IN  /\ line[1] = "\r"
                /\ Count(line, "\r") = 1
                /\ Count(line, "[") = 1 /\ Count(line, "]") = 1
                /\ Cells(line) = Rep("#", fill)
                                   \o Rep(" ", WIDTH_PROGRESS_BAR - fill)
                /\ Count(line, "#") = fill
                /\ (jobs_completed = 0 => Count(line, "#") = 0)
                /\ (Count(line, "#") = WIDTH_PROGRESS_BAR
                      <=> jobs_completed = jobs_total)
                /\ Count(line, "\n") = (IF end THEN 1 ELSE 0)
                /\ (end => line[Len(line)] = "\n")
                /\ Len(line) = 1 + WIDTH_TERM + Count(line, "\n")

\* C27 witness: a line has been written for a completed count that is
\* neither 0 nor total and does not divide evenly, without the terminator.
C27_Witness ==
  /\ pc = "printed"
  /\ jobs_completed > 0
  /\ jobs_completed < jobs_total
  /\ (WIDTH_PROGRESS_BAR * jobs_completed) % jobs_total # 0
  /\ Len(io.rendered) = 1
  /\ ~io.rendered[1].end
  /\ Count(io.rendered[1].line, "#") > 0

\* ------------------------------------------------------ pruning properties
\* directory d of the tree has a file somewhere below it
HasFileBelow(tree, d) ==
  \E f \in FilesIn(tree) : Len(f) > Len(d) /\ SubSeq(f, 1, Len(d)) = d
DirsIn(tree) == {e[1] : e \in {d \in tree : d[2] = DIR}}
Root == << >>

\* C29: after remove_empty_directories(root, remove_root) every directory
\* left strictly below root has a file somewhere below it, no file has been
\* removed, every directory with a file below it is still there and nothing
\* was added; with remove_root false root is still there, with remove_root
\* true root has been removed iff there was no file anywhere below it.
C29_OnlyEmptyRemoved ==
  pc = "pruned" =>
    /\ \A d \in DirsIn(results) \ {Root} : HasFileBelow(results, d)
    /\ \A e \in batch.before : e[2] # DIR => e \in results
    /\ \A d \in DirsIn(batch.before) \ {Root} :
         HasFileBelow(batch.before, d) => d \in DirsIn(results)
    /\ results \subseteq batch.before
    /\ ~batch.remove_root => Root \in DirsIn(results)
    /\ batch.remove_root =>
         (Root \notin DirsIn(results) <=> FilesIn(batch.before) = {})

\* C29 witness: with remove_root false, a directory that held only an empty
\* directory has been removed with it, next to a directory that holds a
\* file and was kept.
C29_Witness ==
  /\ pc = "pruned"
  /\ ~batch.remove_root
  /\ \E d \in DirsIn(batch.before) \ DirsIn(results) :
       \E c \in DirsIn(batch.before) \ DirsIn(results) :
         Len(c) = Len(d) + 1 /\ SubSeq(c, 1, Len(d)) = d
  /\ \E k \in DirsIn(results) \ {Root} : HasFileBelow(results, k)

\* ----------------------------------------------------- a process that hangs
\* a thread waits for a process in the directory Hung
Hanging ==
  \E e \in Execs :
    execs[e].root = Hung /\ execs[e].pc \in {"shell_running", "bat_running"}

\* C28: when, with room for two threads or more, the process of the job
\* Hung never exits, the dispatch comes to rest with every other job counted
\* (jobs_completed = jobs_total - 1), the waiting thread alone in
\* active_list, at most max_open_threads executors in flight, and never
\* returns.
C28_HungTakesOneSlot ==
  <>[](ThreadedDispatching /\ max_open_threads >= 2 /\ Hanging) =>
    <>[](/\ jobs_completed = jobs_total - 1
         /\ Len(active_list) = 1
         /\ todo_list = << >>
         /\ Cardinality(InFlight) <= max_open_threads
         /\ pc # "returned")


\* ------------------------------------------------------------------- C31
\* the threads the coordinator has taken off done_queue: they have put
\* themselves on the queue and are on it no more
Dequeued ==
  {e \in Execs : /\ execs[e].pc = "notified"
                 /\ \A i \in 1..Len(done_queue) : done_queue[i] # e}

InActiveList(e) == \E i \in 1..Len(active_list) : active_list[i] = e

\* C31: whenever the coordinator of the threaded scheduler evaluates its
\* outer loop condition, the length of the pending list plus the length of
\* the active list plus jobs_completed equals jobs_total, and a started
\* thread is in the active list (once) exactly as long as the coordinator has
\* not taken its notification off done_queue.
C31_ConservationAtLoopTest ==
  pc = "loop" =>
    /\ Len(todo_list) + Len(active_list) + jobs_completed = jobs_total
    /\ \A e \in Execs : InActiveList(e) <=> e \notin Dequeued
    /\ \A i, j \in 1..Len(active_list) :
         active_list[i] = active_list[j] => i = j
    /\ \A i \in 1..Len(active_list) : active_list[i] \in Execs

\* the loop condition is evaluated with a job already counted, its thread
\* gone from the active list, and a thread that has put itself on done_queue
\* and is still in the active list
C31_Witness ==
  /\ pc = "loop"
  /\ jobs_completed > 0
  /\ \E e \in Execs : InActiveList(e) /\ execs[e].pc = "notified"
  /\ Dequeued # {}

\* ------------------------------------------------------------------- C32
\* a thread is on done_queue at most once and only with its executor
\* returned; no more jobs are counted than executors have returned, and a
\* thread gone from the active list has no process running
CountedAfterReturn ==
  /\ \A i, j \in 1..Len(done_queue) : done_queue[i] = done_queue[j] => i = j
  /\ \A i \in 1..Len(done_queue) :
       done_queue[i] \in Execs /\ execs[done_queue[i]].pc = "notified"
  /\ pc \in {"loop", "drain", "drained", "seq"} =>
       jobs_completed <= Cardinality(Returned)
  /\ ThreadedDispatching =>
       \A e \in Execs : ~InActiveList(e) => e \notin InFlight

\* done_queue grows by a thread whose call of _shell_and_bat has returned,
\* and by nothing else
PutAfterReturn ==
  Len(done_queue') > Len(done_queue) =>
    \E e \in Execs : /\ execs[e].pc = "returned"
                     /\ done_queue' = Append(done_queue, e)

\* a started worker thread comes to put itself on done_queue
PutsItself(e) ==
  (ThreadedDispatching /\ e \in Execs) ~>
    (e \in Execs /\ execs[e].pc = "notified")

\* C32: every worker thread puts exactly one notification on done_queue,
\* after both stages of its job have returned; jobs_completed never exceeds
\* the number of executors that have returned, and no job is counted while
\* one of its processes is running.
C32_OneNotificationAfterReturn ==
  /\ []CountedAfterReturn
  /\ [][PutAfterReturn]_vars
  /\ \A e \in ExecIds : PutsItself(e)

\* ------------------------------------------------------------------- C33
\* the pairs (root, files) _shell_and_bat has been called with
Calls == {[root |-> execs[e].root, files |-> execs[e].files] : e \in Execs}

\* lines 793-800: the threaded scheduler is entered exactly when threading is
\* set and more than one directory is pending, the sequential one otherwise
ChoiceOfScheduler ==
  (pc = "idle" /\ pc' # "idle") =>
    /\ pc' = "loop" <=> (threading /\ Cardinality(pending') > 1)
    /\ pc' = "seq" <=> ~(threading /\ Cardinality(pending') > 1)

\* the sequential scheduler starts no thread and has at most one executor
\* in flight
OneAtATime ==
  pc = "seq" =>
    /\ Cardinality(InFlight) <= 1
    /\ active_list = << >>
    /\ done_queue = << >>

\* either scheduler returns having called _shell_and_bat, without verbose,
\* once with every pair discovery selected and with no other, and returns
\* true
SameCalls ==
  (pc # "returned" /\ pc' = "returned") =>
    LET todo == Walk(walked, force, a_range)
    IN  /\ Len(execs) = Len(todo)
        /\ Calls = {todo[i] : i \in 1..Len(todo)}
        /\ \A e \in Execs : execs[e].verbose = FALSE
        /\ result' = TRUE

\* what either scheduler leaves when it has returned
AllCalled ==
  /\ pc = "returned"
  /\ result = TRUE
  /\ \A d \in Dirs : handed[d] = IF d \in pending THEN 1 ELSE 0

\* C33: do_calculations takes the threaded scheduler exactly when threading
\* is set and more than one job is pending, and otherwise the sequential
\* one, which has at most one executor in flight; with verbose false, either
\* scheduler calls _shell_and_bat once with every pending pair (root, files)
\* and with no other, and returns the same value, true.
C33_SchedulersAgree ==
  /\ [][ChoiceOfScheduler]_vars
  /\ []OneAtATime
  /\ [][SameCalls]_vars
  /\ Discovered ~> AllCalled
====
